---- MODULE Spec2Model ----
(***************************************************************************)
(* Model of the path-addressed configuration tree of config.go:           *)
(* Config.Set (auto-vivifying, array-resizing write), Get (navigation),    *)
(* and the helpers they call.                                              *)
(*                                                                         *)
(* A Go string is a sequence of one-character strings, so that            *)
(* strings.Trim, strings.Split, strings.Join and strconv.Atoi are          *)
(* computed on characters.  A Go interface{} value of the canonical tree   *)
(* is a record [k, v]: k is the dynamic kind, v the payload.               *)
(***************************************************************************)
EXTENDS Integers, Sequences, FiniteSets, TLC

(***************************************************************************)
(* Values                                                                  *)
(***************************************************************************)
\* the nil interface value (JSON null, an unset root, a hole of a resized slice)
Nil == [k |-> "nil", v |-> <<>>]
\* a bool / float64 / int / string value, by its literal
Scalar(lit) == [k |-> "scalar", v |-> lit]
\* map[string]interface{}: a function from keys (strings) to values
Mapping(f) == [k |-> "map", v |-> f]
\* []interface{}: a sequence of values, index 0 of the code at position 1
Sequence(s) == [k |-> "seq", v |-> s]
\* the outcome of an evaluation that aborted with a runtime panic
Panicked == [k |-> "panic", v |-> <<>>]

\* a map without entries
EmptyMap == [x \in {} |-> x]
\* m[key] = val on a Go map
Put(m, key, val) == [x \in DOMAIN m \cup {key} |-> IF x = key THEN val ELSE m[x]]

\* the modified / added results of Set: a made map, or the nil map
GoMap(m) == [isnil |-> FALSE, m |-> m]
NilMap == [isnil |-> TRUE, m |-> EmptyMap]

(***************************************************************************)
(* Strings                                                                 *)
(***************************************************************************)
Digits == {"0", "1", "2", "3", "4", "5", "6", "7", "8", "9"}
DigitVal(c) ==
    CASE c = "0" -> 0 [] c = "1" -> 1 [] c = "2" -> 2 [] c = "3" -> 3
      [] c = "4" -> 4 [] c = "5" -> 5 [] c = "6" -> 6 [] c = "7" -> 7
      [] c = "8" -> 8 [] c = "9" -> 9

RECURSIVE TrimLeft(_, _)
TrimLeft(s, c) ==
    IF s # <<>> /\ Head(s) = c THEN TrimLeft(Tail(s), c) ELSE s

RECURSIVE TrimRight(_, _)
TrimRight(s, c) ==
    IF s # <<>> /\ s[Len(s)] = c THEN TrimRight(SubSeq(s, 1, Len(s) - 1), c) ELSE s

\* strings.Trim(s, c) for a one-character cutset
Trim(s, c) == TrimRight(TrimLeft(s, c), c)

\* strings.Split(s, "."): never empty, Split("") is one empty segment
RECURSIVE SplitFrom(_, _)
SplitFrom(s, cur) ==
    IF s = <<>> THEN <<cur>>
    ELSE IF Head(s) = "." THEN <<cur>> \o SplitFrom(Tail(s), <<>>)
    ELSE SplitFrom(Tail(s), Append(cur, Head(s)))

Split(s) == SplitFrom(s, <<>>)

\* strings.Join(keys, ".")
RECURSIVE Join(_)
Join(keys) ==
    IF keys = <<>> THEN <<>>
    ELSE IF Len(keys) = 1 THEN keys[1]
    ELSE keys[1] \o <<".">> \o Join(Tail(keys))

RECURSIVE DecimalValue(_, _)
DecimalValue(s, acc) ==
    IF s = <<>> THEN acc ELSE DecimalValue(Tail(s), 10 * acc + DigitVal(Head(s)))

\* strconv.Atoi(s), and strconv.ParseInt(s, 10, 0): an optional sign, then one or
\* more decimal digits; [ok |-> FALSE] is the non-nil error
Atoi(s) ==
    LET signed == s # <<>> /\ Head(s) \in {"+", "-"}
        body == IF signed THEN Tail(s) ELSE s
        wellformed == body # <<>> /\ \A j \in 1..Len(body) : body[j] \in Digits
    IN  IF ~wellformed THEN [ok |-> FALSE, n |-> 0]
        ELSE [ok |-> TRUE,
              n |-> IF signed /\ Head(s) = "-" THEN 0 - DecimalValue(body, 0)
                    ELSE DecimalValue(body, 0)]

(***************************************************************************)
(* Helpers of Set                                                          *)
(***************************************************************************)
\* make([]interface{}, len): a slice of len nil values; a negative len panics
makeArray(len) ==
    IF len < 0 THEN Panicked ELSE Sequence([j \in 1..len |-> Nil])

makeMap == Mapping(EmptyMap)

\* reflect.DeepEqual on canonical tree values
DeepEqual(a, b) == a = b

\* a resizeArray that reallocates to index+1 also when the slice is longer
resizeArrayExact(key, obj) ==
    LET a == Atoi(key)
    IN  IF ~a.ok THEN obj
        ELSE IF obj = Nil THEN makeArray(a.n + 1)
        ELSE IF obj.k = "seq" /\ a.n >= 0
             THEN Sequence([j \in 1..(a.n + 1) |->
                              IF j <= Len(obj.v) THEN obj.v[j] ELSE Nil])
        ELSE obj

\* resizeArray(key, obj): when key is an integer index, a nil obj becomes a slice
\* of index+1 holes and a shorter slice is copied into one of index+1
resizeArray(key, obj) ==
    LET a == Atoi(key)
    IN  IF ~a.ok THEN obj
        ELSE IF obj = Nil THEN makeArray(a.n + 1)
        ELSE IF obj.k = "seq" /\ Len(obj.v) <= a.n
             THEN Sequence([j \in 1..(a.n + 1) |->
                              IF j <= Len(obj.v) THEN obj.v[j] ELSE Nil])
        ELSE obj

(***************************************************************************)
(* Outcomes of a call                                                      *)
(***************************************************************************)
NoError == [msg |-> "", at |-> <<>>, len |-> 0]

\* return modified, added, nil; node is what the walked position holds now
Returned(node, modified, added) ==
    [node |-> node, status |-> "ok", modified |-> GoMap(modified),
     added |-> GoMap(added), value |-> Nil, err |-> NoError]

\* return nil, nil, fmt.Errorf(msg, at): the bookkeeping so far is dropped, what
\* was already written to the tree stays
Failed(node, msg, at, len) ==
    [node |-> node, status |-> "err", modified |-> NilMap, added |-> NilMap,
     value |-> Nil, err |-> [msg |-> msg, at |-> at, len |-> len]]

\* a runtime panic unwinds the call: nothing is returned
Aborted(node) ==
    [node |-> node, status |-> "panic", modified |-> NilMap, added |-> NilMap,
     value |-> Nil, err |-> NoError]

(***************************************************************************)
(* Config.Set                                                              *)
(***************************************************************************)
\* a last segment on a map that overwrites and records also an equal value
LastInMapAlways(v, key, value, full, modified, added) ==
    IF key \in DOMAIN v
    THEN Returned(Mapping(Put(v, key, value)), Put(modified, full, v[key]), added)
    ELSE Returned(Mapping(Put(v, key, value)), modified, Put(added, full, value))

\* the last segment on a map[string]interface{} v
LastInMap(v, key, value, full, modified, added) ==
    IF key \in DOMAIN v
    THEN IF ~DeepEqual(v[key], value)
         THEN Returned(Mapping(Put(v, key, value)), Put(modified, full, v[key]), added)
         ELSE Returned(Mapping(v), modified, added)
    ELSE Returned(Mapping(Put(v, key, value)), modified, Put(added, full, value))

\* a last segment on a slice that records the new value for a hole
LastInSeqNewValue(v, arrIndex, value, full, modified, added) ==
    LET old == v[arrIndex + 1]
        written == Sequence([v EXCEPT ![arrIndex + 1] = value])
    IN  IF old = Nil THEN Returned(written, modified, Put(added, full, value))
        ELSE IF ~DeepEqual(old, value)
             THEN Returned(written, Put(modified, full, old), added)
        ELSE Returned(Sequence(v), modified, added)

\* the last segment on a []interface{} v, arrIndex within bounds
LastInSeq(v, arrIndex, value, full, modified, added) ==
    LET old == v[arrIndex + 1]
        written == Sequence([v EXCEPT ![arrIndex + 1] = value])
    IN  IF old = Nil THEN Returned(written, modified, Put(added, full, old))
        ELSE IF ~DeepEqual(old, value)
             THEN Returned(written, Put(modified, full, old), added)
        ELSE Returned(Sequence(v), modified, added)

\* the loop over keys, at iteration i (keys[i] is the code's keys[i-1]) with
\* *ref = ref; the node of the outcome is what the position of ref holds when
\* the call ends
RECURSIVE SetLoop(_, _, _, _, _, _)
SetLoop(ref, keys, i, value, modified, added) ==
    IF i > Len(keys) THEN Returned(ref, modified, added)
    ELSE
    LET l == Len(keys)
        key == keys[i]
        full == Join(SubSeq(keys, 1, i))
    IN  CASE ref.k = "map" ->
               IF i = l THEN LastInMap(ref.v, key, value, full, modified, added)
               ELSE IF key \in DOMAIN ref.v
               THEN LET obj == resizeArray(keys[i + 1], ref.v[key])
                    IN  IF obj = Panicked THEN Aborted(ref)
                        ELSE LET r == SetLoop(obj, keys, i + 1, value, modified, added)
                             IN  [r EXCEPT !.node = Mapping(Put(ref.v, key, r.node))]
               ELSE LET a == Atoi(keys[i + 1])
                        child == IF a.ok THEN makeArray(a.n + 1) ELSE makeMap
                    IN  IF child = Panicked THEN Aborted(ref)
                        ELSE LET r == SetLoop(child, keys, i + 1, value, modified, added)
                             IN  [r EXCEPT !.node = Mapping(Put(ref.v, key, r.node))]
          [] ref.k = "seq" ->
               LET a == Atoi(key)
               IN  IF ~a.ok
                   THEN Failed(ref, "object is array. index missmatch", full, 0)
                   ELSE IF ~(a.n > -1 /\ a.n < Len(ref.v))
                   THEN Failed(ref, "index out of bounds", full, 0)
                   ELSE IF i = l
                   THEN LastInSeq(ref.v, a.n, value, full, modified, added)
                   ELSE LET child == resizeArray(keys[i + 1], ref.v[a.n + 1])
                        IN  IF child = Panicked THEN Aborted(ref)
                            ELSE LET r == SetLoop(child, keys, i + 1, value,
                                                  modified, added)
                                 IN  [r EXCEPT !.node =
                                        Sequence([ref.v EXCEPT ![a.n + 1] = r.node])]
          [] OTHER -> SetLoop(ref, keys, i + 1, value, modified, added)

\* path = strings.Trim(path, "."); path = strings.Trim(path, " ")
TrimPath(path) == Trim(Trim(path, "."), " ")

\* if cfg.Root == nil { cfg.Root = make(map[string]interface{}) }
InitRoot(root) == IF root = Nil THEN makeMap ELSE root

\* an empty path that reports an overwritten root as modified
SetRootAsModified(root, value) ==
    [root |-> value, ret |-> Returned(value, Put(EmptyMap, <<>>, root), EmptyMap)]

\* path == "": the value becomes the root and is reported as added[""]
SetRoot(root, value) ==
    [root |-> value, ret |-> Returned(value, EmptyMap, Put(EmptyMap, <<>>, value))]

\* a root switch that replaces the root without recording it
ResetRootSilently(root) ==
    IF root.k \in {"map", "seq"}
    THEN [root |-> root, modified |-> EmptyMap]
    ELSE [root |-> makeMap, modified |-> EmptyMap]

\* switch cfg.Root.(type): a root that is no map and no slice is recorded as
\* modified[""] and replaced by an empty map
ResetRoot(root) ==
    IF root.k \in {"map", "seq"}
    THEN [root |-> root, modified |-> EmptyMap]
    ELSE [root |-> makeMap, modified |-> Put(EmptyMap, <<>>, root)]

\* cfg.Set(path, value) on cfg.Root = root: the root afterwards and what the
\* call returns
ConfigSet(root, path, value) ==
    LET p == TrimPath(path)
        root1 == InitRoot(root)
    IN  IF p = <<>> THEN SetRoot(root1, value)
        ELSE LET reset == ResetRoot(root1)
                 r == SetLoop(reset.root, Split(p), 1, value, reset.modified, EmptyMap)
             IN  [root |-> r.node, ret |-> r]

(***************************************************************************)
(* Get                                                                     *)
(***************************************************************************)
\* the normalizing loop over the split path, at index k of the slice as it was
\* split: an empty first part is dropped, any other empty part is an error
RECURSIVE NormalizeParts(_, _, _)
NormalizeParts(split, k, parts) ==
    IF k > Len(split) THEN [ok |-> TRUE, parts |-> parts]
    ELSE IF split[k] = <<>>
         THEN IF k = 1 THEN NormalizeParts(split, k + 1, Tail(parts))
              ELSE [ok |-> FALSE, parts |-> parts]
    ELSE NormalizeParts(split, k + 1, parts)

\* the walk of Get, at parts[pos] with the current value cfg
RECURSIVE GetLoop(_, _, _)
GetLoop(cfg, parts, pos) ==
    IF pos > Len(parts) THEN [Returned(cfg, EmptyMap, EmptyMap) EXCEPT
                                !.value = cfg, !.modified = NilMap, !.added = NilMap]
    ELSE
    LET part == parts[pos]
        at == Join(SubSeq(parts, 1, pos))
    IN  CASE cfg.k = "seq" ->
               LET a == Atoi(part)
               IN  IF ~a.ok THEN Failed(cfg, "Invalid list index", at, Len(cfg.v))
                   ELSE IF a.n < Len(cfg.v)
                        THEN IF a.n < 0 THEN Aborted(cfg)
                             ELSE GetLoop(cfg.v[a.n + 1], parts, pos + 1)
                   ELSE Failed(cfg, "Index out of range", at, Len(cfg.v))
          [] cfg.k = "map" ->
               IF part \in DOMAIN cfg.v THEN GetLoop(cfg.v[part], parts, pos + 1)
               ELSE Failed(cfg, "Nonexistent map key", at, 0)
          [] OTHER -> Failed(cfg, "Invalid type", at, 0)

\* Get(cfg, path)
Get(cfg, path) ==
    LET n == NormalizeParts(Split(path), 1, Split(path))
    IN  IF ~n.ok THEN Failed(cfg, "Invalid path", path, 0)
        ELSE GetLoop(cfg, n.parts, 1)

\* cfg.Get(path): the value found becomes the root of a new Config
ConfigGet(root, path) == Get(root, path)

(***************************************************************************)
(* Inputs                                                                  *)
(***************************************************************************)
\* the number of calls made on one handle
MaxCalls == 2

One == Scalar(<<"1">>)
Two == Scalar(<<"2">>)
Three == Scalar(<<"3">>)
List123 == Sequence(<<One, Two, Three>>)

\* the trees a handle starts with: Config{} (unset root), and what parsing gives
\* for 1, {}, [1,2,3], [1,null], {"a": {"b": [1,2,3]}}, {"a": 1, "list": null}
Roots ==
    { Nil,
      One,
      makeMap,
      List123,
      Sequence(<<One, Nil>>),
      Mapping(Put(EmptyMap, <<"a">>, Mapping(Put(EmptyMap, <<"b">>, List123)))),
      Mapping(Put(Put(EmptyMap, <<"a">>, One), <<"l", "i", "s", "t">>, Nil)) }

\* the values written: nil, "x", 99, {"c": "x"}
Values ==
    { Nil,
      Scalar(<<"x">>),
      Scalar(<<"9", "9">>),
      Mapping(Put(EmptyMap, <<"c">>, Scalar(<<"x">>))) }

\* the paths used: "", ".", " . ", "a", ".a.", "a.b", "a.b.1", "a.b.5", "a.b.2.c",
\* "x.y", "a.-1", "a.-2", "list.5", "list.2", "1", "5", "-1", "1.b"
Paths ==
    { <<>>,
      <<".">>,
      <<" ", ".", " ">>,
      <<"a">>,
      <<".", "a", ".">>,
      <<"a", ".", "b">>,
      <<"a", ".", "b", ".", "1">>,
      <<"a", ".", "b", ".", "5">>,
      <<"a", ".", "b", ".", "2", ".", "c">>,
      <<"x", ".", "y">>,
      <<"a", ".", "-", "1">>,
      <<"a", ".", "-", "2">>,
      <<"l", "i", "s", "t", ".", "5">>,
      <<"l", "i", "s", "t", ".", "2">>,
      <<"1">>,
      <<"5">>,
      <<"-", "1">>,
      <<"1", ".", "b">> }

(***************************************************************************)
(* The handle and the calls made on it                                     *)
(***************************************************************************)
VARIABLES
    root,     \* cfg.Root
    pre,      \* cfg.Root when the last call was made
    call,     \* the last call: its operation and arguments
    ret,      \* what the last call returned
    prev,     \* the call before the last one and how it ended
    calls     \* the number of calls made

vars == <<root, pre, call, ret, prev, calls>>

NoCall == [op |-> "none", path |-> <<>>, value |-> Nil, status |-> "ok"]

\* what the caller sees of an outcome
Seen(r) ==
    [status |-> r.status, modified |-> r.modified, added |-> r.added,
     value |-> r.value, err |-> r.err]

Init ==
    /\ root \in Roots
    /\ pre = root
    /\ call = NoCall
    /\ ret = Seen(Returned(Nil, EmptyMap, EmptyMap))
    /\ prev = NoCall
    /\ calls = 0

\* the process goes on after a call unless the call panicked
Running == calls < MaxCalls /\ ret.status # "panic"

SetCall ==
    /\ Running
    /\ \E path \in Paths, value \in Values :
         LET r == ConfigSet(root, path, value)
         IN  /\ root' = r.root
             /\ pre' = root
             /\ call' = [op |-> "Set", path |-> path, value |-> value,
                         status |-> r.ret.status]
             /\ ret' = Seen(r.ret)
    /\ prev' = call
    /\ calls' = calls + 1

GetCall ==
    /\ Running
    /\ \E path \in Paths :
         LET r == ConfigGet(root, path)
         IN  /\ call' = [op |-> "Get", path |-> path, value |-> Nil,
                         status |-> r.status]
             /\ ret' = Seen(r)
    /\ root' = root
    /\ pre' = root
    /\ prev' = call
    /\ calls' = calls + 1

Next == SetCall \/ GetCall

Spec == Init /\ [][Next]_vars

(***************************************************************************)
(* Positions of a tree, for stating the properties                         *)
(***************************************************************************)
NotFound == [found |-> FALSE, node |-> Nil]

\* the value at the position keys of tree n: through a map by key, through a
\* sequence by a decimal index within [0, len)
RECURSIVE Locate(_, _)
Locate(n, keys) ==
    IF keys = <<>> THEN [found |-> TRUE, node |-> n]
    ELSE CASE n.k = "map" ->
                IF Head(keys) \in DOMAIN n.v
                THEN Locate(n.v[Head(keys)], Tail(keys)) ELSE NotFound
           [] n.k = "seq" ->
                IF Atoi(Head(keys)).ok /\ Atoi(Head(keys)).n >= 0
                   /\ Atoi(Head(keys)).n < Len(n.v)
                THEN Locate(n.v[Atoi(Head(keys)).n + 1], Tail(keys)) ELSE NotFound
           [] OTHER -> NotFound

IsSeqAt(n, keys) == Locate(n, keys).found /\ Locate(n, keys).node.k = "seq"
IsMapAt(n, keys) == Locate(n, keys).found /\ Locate(n, keys).node.k = "map"

\* the segments of the last call's path as Set splits them
CallKeys == Split(TrimPath(call.path))
\* the first j segments
Prefix(keys, j) == SubSeq(keys, 1, j)

\* the last call was Set with a path that is not empty once trimmed
SetOnPath == call.op = "Set" /\ TrimPath(call.path) # <<>>
\* the last call repeats the call before it, a Set that succeeded
Repeated ==
    /\ call.op = "Set" /\ prev.op = "Set" /\ prev.status = "ok"
    /\ call.path = prev.path /\ call.value = prev.value
NoRecord == GoMap(EmptyMap)

(***************************************************************************)
(* Properties                                                              *)
(***************************************************************************)

\* C1: Get/Set consistency: a Get(P) immediately after a Set(P, V) that returned
\* without error succeeds and returns a value deep-equal to V, for every root,
\* path and value.
C1_GetAfterSet ==
    (call.op = "Get" /\ prev.op = "Set" /\ prev.status = "ok"
        /\ prev.path = call.path)
    => (ret.status = "ok" /\ DeepEqual(ret.value, prev.value))

\* Set on the empty mapping {} with a path of non-negative indices and keys:
\* every non-terminal position holds a Mapping when the following segment is no
\* integer and a Sequence of length index+1 when it is, the value is at the
\* path, and added is {path: value}.
C2_Vivified ==
    (/\ SetOnPath
     /\ pre = makeMap
     /\ \A j \in 1..Len(CallKeys) : Atoi(CallKeys[j]).ok => Atoi(CallKeys[j]).n >= 0)
    => /\ ret.status = "ok"
       /\ \A j \in 1..(Len(CallKeys) - 1) :
            IF Atoi(CallKeys[j + 1]).ok
            THEN /\ IsSeqAt(root, Prefix(CallKeys, j))
                 /\ Len(Locate(root, Prefix(CallKeys, j)).node.v)
                      = Atoi(CallKeys[j + 1]).n + 1
            ELSE IsMapAt(root, Prefix(CallKeys, j))
       /\ Locate(root, CallKeys) = [found |-> TRUE, node |-> call.value]
       /\ ret.added = GoMap(Put(EmptyMap, Join(CallKeys), call.value))

\* Set({}, "a.b.2.c", "x"): a is a mapping, a.b a sequence of three elements whose
\* first two are absent, a.b.2 the mapping {c: "x"}, added is {"a.b.2.c": "x"}.
C2_Example ==
    (/\ call.op = "Set"
     /\ pre = makeMap
     /\ call.path = <<"a", ".", "b", ".", "2", ".", "c">>
     /\ call.value = Scalar(<<"x">>))
    => /\ root = Mapping(Put(EmptyMap, <<"a">>,
                   Mapping(Put(EmptyMap, <<"b">>,
                     Sequence(<<Nil, Nil,
                                Mapping(Put(EmptyMap, <<"c">>, Scalar(<<"x">>)))>>)))))
       /\ ret.added = GoMap(Put(EmptyMap, call.path, Scalar(<<"x">>)))

\* C2: auto-vivification: Set creates every missing non-terminal position of the
\* path (a Mapping before a non-numeric segment, a Sequence of index+1 slots
\* before an index, also in an absent slot of a Sequence), writes the value and
\* reports added[P] = V; in particular for Set({}, "a.b.2.c", "x").
C2_AutoVivification == C2_Vivified /\ C2_Example

\* C3: Get through a Sequence with an integer segment outside [0, len), at or
\* above len and also negative, returns the index-out-of-range error naming the
\* path walked so far and the length, and does not abort.
C3_GetIndexOutOfRange ==
    call.op = "Get" =>
      LET parts == Split(call.path)
      IN  \A j \in 1..Len(parts) :
            (/\ \A e \in 1..Len(parts) : parts[e] # <<>>
             /\ IsSeqAt(pre, Prefix(parts, j - 1))
             /\ Atoi(parts[j]).ok
             /\ ~(Atoi(parts[j]).n >= 0
                    /\ Atoi(parts[j]).n < Len(Locate(pre, Prefix(parts, j - 1)).node.v)))
            => /\ ret.status = "err"
               /\ ret.err = [msg |-> "Index out of range",
                             at |-> Join(Prefix(parts, j)),
                             len |-> Len(Locate(pre, Prefix(parts, j - 1)).node.v)]

\* C4: Set always returns and never aborts: either (modified, added, nil) with
\* both maps non-nil, or (nil, nil, error); also for negative numeric segments.
C4_SetAlwaysReturns ==
    call.op = "Set" =>
      \/ ret.status = "ok" /\ ~ret.modified.isnil /\ ~ret.added.isnil
      \/ ret.status = "err" /\ ret.modified.isnil /\ ret.added.isnil

\* C5 as stated: idempotence of Set: a Set(P, V) that repeats a successful
\* Set(P, V) returns modified = {} and added = {} and leaves the tree unchanged,
\* for every root, path and value.
C5_Idempotent ==
    Repeated => /\ ret.status = "ok"
                /\ ret.modified = NoRecord
                /\ ret.added = NoRecord
                /\ root = pre

\* the last segment of the last call addresses a slot of a Sequence of tree n
LastInSequenceOf(n) ==
    IsSeqAt(n, Prefix(CallKeys, Len(CallKeys) - 1))

\* C5 amended: idempotence of Set for a path that is not empty once trimmed,
\* unless the absent value is written to a slot of a Sequence: the repeated
\* Set(P, V) returns modified = {} and added = {} and leaves the tree unchanged.
C5_IdempotentOnPath ==
    (/\ Repeated
     /\ TrimPath(call.path) # <<>>
     /\ ~(call.value = Nil /\ LastInSequenceOf(pre)))
    => /\ ret.status = "ok"
       /\ ret.modified = NoRecord
       /\ ret.added = NoRecord
       /\ root = pre

\* a repeated Set whose first call wrote a value that was not there, at a path
\* through a Sequence
C5_Witness ==
    /\ Repeated
    /\ TrimPath(call.path) # <<>>
    /\ call.value # Nil
    /\ Len(CallKeys) >= 2
    /\ LastInSequenceOf(pre)
    /\ Locate(pre, CallKeys) = [found |-> TRUE, node |-> call.value]

ListKey == <<"l", "i", "s", "t">>
List5 == <<"l", "i", "s", "t", ".", "5">>
List2 == <<"l", "i", "s", "t", ".", "2">>

\* every Sequence at a non-terminal position of the path of a Set is, after the
\* call, a Sequence at least as long whose elements off the path are the same
C6_NoShrink ==
    SetOnPath =>
      \A j \in 0..(Len(CallKeys) - 1) :
        IsSeqAt(pre, Prefix(CallKeys, j)) =>
          LET old == Locate(pre, Prefix(CallKeys, j)).node.v
              new == Locate(root, Prefix(CallKeys, j)).node.v
              next == Atoi(CallKeys[j + 1])
          IN  /\ IsSeqAt(root, Prefix(CallKeys, j))
              /\ Len(new) >= Len(old)
              /\ \A e \in 1..Len(old) :
                   ~(next.ok /\ next.n + 1 = e) => new[e] = old[e]

\* Set("list.5", v) followed by Set("list.2", w) leaves list with at least six
\* elements and list.5 = v
C6_Example ==
    (/\ call.op = "Set" /\ call.path = List2
     /\ prev.op = "Set" /\ prev.path = List5 /\ prev.status = "ok")
    => /\ IsSeqAt(root, <<ListKey>>)
       /\ Len(Locate(root, <<ListKey>>).node.v) >= 6
       /\ Locate(root, <<ListKey, <<"5">>>>) = [found |-> TRUE, node |-> prev.value]

\* C6: Set never shrinks a Sequence: a Sequence that a Set call, successful or
\* not, navigates through or resizes at a non-terminal segment is afterwards at
\* least as long and keeps its elements apart from the one on the path; e.g.
\* Set("list.5", v) then Set("list.2", w) leaves list.5 = v in a list of >= 6.
C6_NeverShrinks == C6_NoShrink /\ C6_Example

\* Set("list.2", w) right after a successful Set("list.5", v) made list six long
C6_Witness ==
    /\ call.op = "Set" /\ call.path = List2 /\ ret.status = "ok"
    /\ prev.op = "Set" /\ prev.path = List5 /\ prev.status = "ok"
    /\ IsSeqAt(pre, <<ListKey>>)
    /\ Len(Locate(pre, <<ListKey>>).node.v) = 6
    /\ ~IsSeqAt(pre, <<ListKey, <<"2">>>>)

\* C7 as stated: root reset: a successful Set with a non-empty path on a root
\* that is neither Mapping nor Sequence, a Scalar and also an unset root,
\* records the old root as modified[""] and makes the root a Mapping; on a
\* Mapping or Sequence root modified has no "" key.
C7_RootReset ==
    (SetOnPath /\ ret.status = "ok") =>
      IF pre.k \in {"map", "seq"}
      THEN <<>> \notin DOMAIN ret.modified.m
      ELSE /\ <<>> \in DOMAIN ret.modified.m
           /\ ret.modified.m[<<>>] = pre
           /\ root.k = "map"

\* C7 amended: a Set with a non-empty path on a Scalar root replaces the root by
\* a fresh Mapping before it navigates and, when it succeeds, records the old
\* root as modified[""]; an unset root is replaced by a fresh Mapping without a
\* record; on a Mapping, Sequence or unset root a successful Set returns a
\* modified without the key "".
C7_RootResetScalar ==
    SetOnPath =>
      /\ (pre.k = "scalar" /\ ret.status = "ok") =>
            /\ <<>> \in DOMAIN ret.modified.m
            /\ ret.modified.m[<<>>] = pre
      /\ (pre.k \in {"map", "seq", "nil"} /\ ret.status = "ok") =>
            <<>> \notin DOMAIN ret.modified.m
      /\ pre.k \in {"scalar", "nil"} =>
            /\ root.k = "map"
            /\ DOMAIN root.v \subseteq {CallKeys[1]}

\* a successful Set with a non-empty path on a Scalar root
C7_Witness ==
    /\ SetOnPath /\ ret.status = "ok" /\ pre.k = "scalar"
    /\ Len(CallKeys) >= 2
    /\ ret.added.m # EmptyMap

C9_Bookkeeping ==
    (SetOnPath /\ ret.status = "ok") =>
      LET P == Join(CallKeys)
          parent == Prefix(CallKeys, Len(CallKeys) - 1)
          old == Locate(pre, CallKeys)
          mod == ret.modified.m
          add == ret.added.m
          written == Locate(root, CallKeys) = [found |-> TRUE, node |-> call.value]
          absent == ~old.found \/ old.node = Nil
      IN  /\ IsMapAt(root, parent) =>
                CASE old.found /\ ~DeepEqual(old.node, call.value) ->
                       /\ P \in DOMAIN mod /\ mod[P] = old.node
                       /\ P \notin DOMAIN add /\ written
                  [] old.found /\ DeepEqual(old.node, call.value) ->
                       /\ P \notin DOMAIN mod /\ P \notin DOMAIN add
                       /\ root = pre
                  [] OTHER ->
                       /\ P \in DOMAIN add /\ add[P] = call.value
                       /\ P \notin DOMAIN mod /\ written
          /\ IsSeqAt(root, parent) =>
                CASE absent ->
                       /\ P \in DOMAIN add /\ add[P] = Nil
                       /\ P \notin DOMAIN mod /\ written
                  [] ~absent /\ ~DeepEqual(old.node, call.value) ->
                       /\ P \in DOMAIN mod /\ mod[P] = old.node
                       /\ P \notin DOMAIN add /\ written
                  [] OTHER ->
                       /\ P \notin DOMAIN mod /\ P \notin DOMAIN add
                       /\ root = pre
          /\ DOMAIN mod \cap DOMAIN add = {}

AB1 == <<"a", ".", "b", ".", "1">>
TreeAB123 == Mapping(Put(EmptyMap, <<"a">>, Mapping(Put(EmptyMap, <<"b">>, List123))))

\* on {"a": {"b": [1,2,3]}}, Set("a.b.1", 99) returns modified = {"a.b.1": 2} and
\* added = {}, and Get("a.b.1") then returns 99
C9_Example ==
    (/\ call.op = "Set" /\ pre = TreeAB123
     /\ call.path = AB1 /\ call.value = Scalar(<<"9", "9">>))
    => /\ ret.status = "ok"
       /\ ret.modified = GoMap(Put(EmptyMap, AB1, Two))
       /\ ret.added = NoRecord
       /\ Get(root, AB1).status = "ok"
       /\ Get(root, AB1).value = Scalar(<<"9", "9">>)

\* C9: last-segment bookkeeping of a successful Set(P, V), P the trimmed path:
\* into a Mapping, modified[P] = old and overwrite iff the key exists with a
\* value not deep-equal to V, no record and no change if deep-equal, added[P] = V
\* and insert iff the key is missing; into a Sequence, added[P] = the absent
\* value and write iff the slot is absent, modified[P] = old and write iff it
\* holds a different value, no record otherwise; no path is in both maps.
C9_LastSegment == C9_Bookkeeping /\ C9_Example

\* a successful Set that wrote into an absent slot of a Sequence that existed
C9_Witness ==
    /\ SetOnPath /\ ret.status = "ok"
    /\ IsSeqAt(pre, Prefix(CallKeys, Len(CallKeys) - 1))
    /\ Locate(pre, CallKeys) = [found |-> TRUE, node |-> Nil]
    /\ call.value # Nil
    /\ Locate(root, CallKeys) = [found |-> TRUE, node |-> call.value]

\* C10: change reports are complete: a Set that returns successfully with
\* modified and added both empty left the tree deep-equal to the tree before.
C10_ReportsComplete ==
    (/\ call.op = "Set" /\ ret.status = "ok"
     /\ ret.modified = NoRecord /\ ret.added = NoRecord)
    => DeepEqual(root, pre)

====
